---- MODULE Spec2Model ----
(***************************************************************************)
(* State-machine model of the store-audio-tool React component (App.tsx)   *)
(* and of the services it calls.  The state is the component's useState    *)
(* cells plus, for every async handler that is suspended at an await, the  *)
(* values its closure captured and its position.  JavaScript runs each     *)
(* handler segment between two awaits to completion, so every action is     *)
(* one such segment.                                                        *)
(***************************************************************************)
EXTENDS Integers, Sequences, FiniteSets, TLC

(* ------------------------------ bounds --------------------------------- *)
\* tracks ever created in a session (uploads and generated intros)
MaxIds == 2
\* length of the track list (only a sort with repeated indices can exceed MaxIds)
MaxTracks == 2
\* files chosen in one upload dialog
MaxUpload == 1
\* length of the index array returned by the AI service
MaxOrder == 1

(* --------------------------- program constants ------------------------- *)
\* progress share of the decode phase, progress at 'merging', at 'completed'
DecodeShare == 80
MergingProgress == 90
CompletedProgress == 100
AnalyzingProgress == 10
TTSProgress == 20
\* channel count the merge passes to createWavHeader
OutChannels == 2
\* bytes per output frame: 2 channels * 2 bytes
BytesPerFrame == 4

(* ------------------------------ values --------------------------------- *)
\* null / a present value
Null == <<>>
Some(x) == <<x>>

\* the files a user can choose: name, MIME type accepted by the upload filter or not
Files == { [name |-> "a.mp3", media |-> TRUE],
           [name |-> "c.txt", media |-> FALSE] }

\* frame count and channel count of what the host decoder yields for a file
FileFrames(name) == IF name = "a.mp3" THEN 8000 ELSE 2
FileChannels(name) == IF name = "a.mp3" THEN 1 ELSE 2

\* e.message of a rejected decode ("" is an error without a message)
DecodeErrors == {"EncodingError", ""}

\* the AudioContext's sample rate of this session
SampleRate == 8000

RECURSIVE GCD(_, _)
GCD(a, b) == IF b = 0 THEN a ELSE GCD(b, a % b)
\* a JavaScript number that is a ratio, in lowest terms
Frac(a, b) == LET g == GCD(a, b) IN [num |-> a \div g, den |-> b \div g]

(* ------------------------------ WAV bytes ------------------------------ *)
\* a JavaScript integer that may exceed 31 bits, as two base-65536 digits
\* (hi may itself exceed 65535: the value is hi * 65536 + lo)
Wide(n) == [hi |-> n \div 65536, lo |-> n % 65536]
\* a + k for a small k >= 0
WidePlus(a, k) ==
  [hi |-> a.hi + ((a.lo + k) \div 65536), lo |-> (a.lo + k) % 65536]

\* view.setUint16(pos, data, true): data modulo 2^16, low byte first
setUint16(data) == << data % 256, (data \div 256) % 256 >>

\* view.setUint32(pos, data, true) with the byte order flag left out
setUint32_BigEndian(data) ==
  << (data.hi \div 256) % 256, data.hi % 256, data.lo \div 256, data.lo % 256 >>

\* view.setUint32(pos, data, true): data modulo 2^32, low byte first
setUint32(data) ==
  << data.lo % 256, data.lo \div 256, data.hi % 256, (data.hi \div 256) % 256 >>

(* ----------------------------- PCM samples ----------------------------- *)
\* a float sample x is the integer x * SampleUnit; a decoded buffer with its
\* samples is [numberOfChannels, length, data], data[c + 1][i + 1] being sample
\* i of getChannelData(c)
SampleUnit == 4

\* a product s * 32768 or s * 32767 stored into an Int16Array: the fraction is
\* dropped (toward zero) and the integer taken modulo 2^16 into -32768..32767
StoreInt16(num, den) ==
  LET t == IF num < 0 THEN -((-num) \div den) ELSE num \div den
  IN ((t + 32768) % 65536) - 32768

\* both signs scaled by 32768
SampleToInt16_Symmetric(x) ==
  LET lo == IF 1 * SampleUnit < x THEN 1 * SampleUnit ELSE x
      s == IF -1 * SampleUnit > lo THEN -1 * SampleUnit ELSE lo
  IN StoreInt16(s * 32768, SampleUnit)

\* s = Math.max(-1, Math.min(1, x)); left[i] = s < 0 ? s * 32768 : s * 32767
SampleToInt16(x) ==
  LET lo == IF 1 * SampleUnit < x THEN 1 * SampleUnit ELSE x
      s == IF -1 * SampleUnit > lo THEN -1 * SampleUnit ELSE lo
  IN IF s < 0 THEN StoreInt16(s * 32768, SampleUnit)
              ELSE StoreInt16(s * 32767, SampleUnit)

\* the right channel read from the buffer's last channel
RightFloat_LastChannel(buffer) == buffer.data[buffer.numberOfChannels]

\* rightFloat = numChannels > 1 ? buffer.getChannelData(1) : leftFloat
RightFloat(buffer) ==
  IF buffer.numberOfChannels > 1 THEN buffer.data[2] ELSE buffer.data[1]

\* a mono buffer yielding no right channel
extractPCM16_NoUpmix(buffer) ==
  [left |-> [i \in 1..buffer.length |-> SampleToInt16(buffer.data[1][i])],
   right |-> IF buffer.numberOfChannels > 1
             THEN [i \in 1..buffer.length |-> SampleToInt16(RightFloat(buffer)[i])]
             ELSE << >>]

\* extractPCM16: the two Int16Arrays
extractPCM16(buffer) ==
  [left |-> [i \in 1..buffer.length |-> SampleToInt16(buffer.data[1][i])],
   right |-> [i \in 1..buffer.length |-> SampleToInt16(RightFloat(buffer)[i])]]

\* a 16-bit signed integer as two bytes, low byte first
Int16Bytes(v) == setUint16((v + 65536) % 65536)

\* the chunk's bytes: frame by frame the left sample, then the right one
\* (an index past the end of a typed array reads as 0 when stored)
RECURSIVE Interleave(_, _)
Interleave(pcm, i) ==
  IF i > Len(pcm.left) THEN << >>
  ELSE Int16Bytes(pcm.left[i])
       \o Int16Bytes(IF i <= Len(pcm.right) THEN pcm.right[i] ELSE 0)
       \o Interleave(pcm, i + 1)
audioBufferToWavPCMBytes(buffer) == Interleave(extractPCM16(buffer), 1)

VARIABLES
  tracks,          \* useState<Track[]>
  processing,      \* useState<ProcessingState>
  mergedBlob,      \* useState<Blob | null>
  apiKey,          \* useState(''): TRUE when non-empty
  audioCtx,        \* audioCtxRef.current: "none", or the context's state
  nextId,          \* ids handed out so far + 1
  mergePc,         \* position of the suspended processMerge
  mTracks,         \* `tracks` captured by processMerge's closure
  mI,              \* loop index i (0-based as in the code)
  chunks,          \* local chunks
  totalDataLength, \* local totalDataLength
  held,            \* decoded buffers the merge's local `buffer` refers to
  sortPc,          \* position of the suspended handleSmartSort
  sTracks,         \* `tracks` captured by handleSmartSort's closure
  introPc,         \* position of the suspended handleAddIntro
  decodeLog,       \* history: indices decodeAudio was called for, this invocation
  returnedEarly,   \* history: the last handler call was a processMerge that returned at once
  terminalSeen,    \* history: the status has been 'completed' or 'error' since the last reset
  lastMerge,       \* history: the artifact of the last completed merge, while the list is
                   \* the one it was invoked on; whether that merge was itself a repeat
  editedBy,        \* history: "sort" / "intro" when the list was edited while that
                   \* operation was in flight (kept for the state it ends in), else ""
  fnIn,            \* the argument of a library function under test (unused by the app)
  fnOut            \* its result

vars == << tracks, processing, mergedBlob, apiKey, audioCtx, nextId,
           mergePc, mTracks, mI, chunks, totalDataLength, held,
           sortPc, sTracks, introPc, decodeLog, returnedEarly, terminalSeen,
           lastMerge, editedBy, fnIn, fnOut >>

mergeLocals == << mergePc, mTracks, mI, chunks, totalDataLength, held >>

(* ------------------------- processing states --------------------------- *)
\* a message is the translation key it was built from and what was interpolated
\* into it: a track index, the track count, a track name, an error text
Msg(key, index, total, name, detail) ==
  [key |-> key, index |-> index, total |-> total, name |-> name, detail |-> detail]
PlainMsg(key) == Msg(key, 0, 0, "", "")
NoMsg == PlainMsg("")

Idle == [status |-> "idle", message |-> NoMsg, progress |-> Frac(0, 1)]

\* the component as mounted
AppInit ==
  /\ tracks = <<>>
  /\ processing = Idle
  /\ mergedBlob = Null
  /\ apiKey = FALSE
  /\ audioCtx = "none"
  /\ nextId = 1
  /\ mergePc = "idle"
  /\ mTracks = <<>>
  /\ mI = 0
  /\ chunks = <<>>
  /\ totalDataLength = 0
  /\ held = {}
  /\ sortPc = "idle"
  /\ sTracks = <<>>
  /\ introPc = "idle"
  /\ decodeLog = <<>>
  /\ returnedEarly = FALSE
  /\ terminalSeen = FALSE
  /\ lastMerge = Null
  /\ editedBy = ""

Init ==
  /\ AppInit
  /\ fnIn = Null
  /\ fnOut = Null

\* no handler is in the middle of a synchronous segment
Quiescent == mergePc # "decoded"

\* the AI operation suspended at an await, "" when there is none
AIOperation(sPc, iPc) == IF sPc # "idle" THEN "sort" ELSE IF iPc # "idle" THEN "intro" ELSE ""

\* history kept by every step: an edit of the list under an AI operation in flight
NoteEdit ==
  LET before == AIOperation(sortPc, introPc)
      after == AIOperation(sortPc', introPc')
  IN editedBy' = IF before # "" /\ after # ""
                 THEN (IF tracks' # tracks THEN after ELSE editedBy)
                 ELSE IF before # "" THEN editedBy ELSE ""

(* ------------------------------ tracks --------------------------------- *)
\* the Track pushed by handleFileUpload for one accepted file
MusicTrack(id, name) ==
  [id |-> id, file |-> Some(name), buffer |-> Null, name |-> name,
   duration |-> 0, type |-> "music"]

\* the AudioBuffer decodeAudio resolves to for track tr (a new object per call)
DecodedBuffer(tr) ==
  [of |-> tr.id, numberOfChannels |-> FileChannels(tr.name),
   length |-> FileFrames(tr.name)]

\* the AudioBuffer generateIntroAudio resolves to
IntroBuffer(id) == [of |-> id, numberOfChannels |-> 1, length |-> 1]

\* an intro Track that also carries the synthesized audio as a file
IntroTrack_WithFile(id) ==
  [id |-> id, file |-> Some("intro"), buffer |-> Some(IntroBuffer(id)), name |-> "intro",
   duration |-> IntroBuffer(id).length, type |-> "voiceover"]

\* the Track built by handleAddIntro
IntroTrack(id) ==
  [id |-> id, file |-> Null, buffer |-> Some(IntroBuffer(id)), name |-> "intro",
   duration |-> IntroBuffer(id).length, type |-> "voiceover"]

\* newTracks of handleFileUpload: one Track per file whose type passes the filter
RECURSIVE NewTracks(_, _)
NewTracks(files, id) ==
  IF files = <<>> THEN <<>>
  ELSE IF Head(files).media
       THEN <<MusicTrack(id, Head(files).name)>> \o NewTracks(Tail(files), id + 1)
       ELSE NewTracks(Tail(files), id)

\* prev.filter(t => t.id !== id)
RECURSIVE FilterOutId(_, _)
FilterOutId(list, id) ==
  IF list = <<>> THEN <<>>
  ELSE IF Head(list).id # id
       THEN <<Head(list)>> \o FilterOutId(Tail(list), id)
       ELSE FilterOutId(Tail(list), id)

\* the array moveTrack hands to setTracks; index is 0-based as in the code
MovedTracks(list, index, direction) ==
  LET Swap(a, b) == [k \in 1..Len(list) |->
                       IF k = a THEN list[b] ELSE IF k = b THEN list[a] ELSE list[k]]
  IN IF direction = "up" /\ index > 0 THEN Swap(index + 1, index)
     ELSE IF direction = "down" /\ index < Len(list) - 1 THEN Swap(index + 1, index + 2)
     ELSE list

\* first loop of sortTracksSmartly: the tracks the index array names, in its order
RECURSIVE Suggested(_, _)
Suggested(list, order) ==
  IF order = <<>> THEN <<>>
  ELSE IF Head(order) >= 0 /\ Head(order) < Len(list)
       THEN <<list[Head(order) + 1]>> \o Suggested(list, Tail(order))
       ELSE Suggested(list, Tail(order))

\* usedIndices after the first loop
UsedIndices(list, order) ==
  { order[k] : k \in { j \in 1..Len(order) : order[j] >= 0 /\ order[j] < Len(list) } }

\* the fallback loop left out
Leftovers_None(list, used, k) == <<>>

\* second loop of sortTracksSmartly: the tracks whose index was not used, from position k on
RECURSIVE Leftovers(_, _, _)
Leftovers(list, used, k) ==
  IF k > Len(list) THEN <<>>
  ELSE IF (k - 1) \notin used
       THEN <<list[k]>> \o Leftovers(list, used, k + 1)
       ELSE Leftovers(list, used, k + 1)

sortTracksSmartly(list, order) ==
  Suggested(list, order) \o Leftovers(list, UsedIndices(list, order), 1)

\* the index arrays the AI service may return: any indices, in range or not
OrderIdx == (-1)..MaxTracks
Orders == UNION { [1..n -> OrderIdx] : n \in 0..MaxOrder }

\* what sortTracksSmartly can resolve to for a list, over those index arrays
SortResults(list) == { sortTracksSmartly(list, order) : order \in Orders }

(* ------------------------- what the UI renders ------------------------- *)
\* footer, first branch: the progress bar replaces the action buttons
ShowProgress == processing.status \notin {"idle", "completed", "error"}
\* the reset button offered after every ended operation
ShowDownloadReset_AnyTerminal ==
  ~ShowProgress /\ processing.status \in {"completed", "error"}

\* footer, second branch: download link and reset button
ShowDownloadReset == ~ShowProgress /\ processing.status = "completed" /\ mergedBlob # Null
\* the merge button rendered whenever the download link is not
ShowMergeButton_NoBusyCheck == ~ShowDownloadReset

\* footer, third branch: the merge button
ShowMergeButton == ~ShowProgress /\ ~ShowDownloadReset
\* the AI buttons enabled whenever no progress bar is shown
AIButtonsEnabled_NotBusy == ~ShowProgress

\* the status part of the intro and smart-sort buttons' disabled attribute
AIButtonsEnabled == processing.status = "idle" \/ processing.status = "completed"

(* --------------------------- list handlers ----------------------------- *)
handleApiKeyChange(k) ==
  /\ Quiescent
  /\ apiKey' = k
  /\ UNCHANGED terminalSeen
  /\ returnedEarly' = FALSE
  /\ UNCHANGED << tracks, processing, mergedBlob, audioCtx, nextId, mergeLocals,
                  sortPc, sTracks, introPc, decodeLog >>
  /\ lastMerge' = IF tracks' = tracks THEN lastMerge ELSE Null
  /\ NoteEdit
  /\ UNCHANGED << fnIn, fnOut >>

handleFileUpload(new) ==
  /\ Quiescent
  /\ nextId + Len(new) - 1 <= MaxIds
  /\ Len(tracks) + Len(new) <= MaxTracks
  /\ tracks' = tracks \o new
  /\ nextId' = nextId + Len(new)
  /\ UNCHANGED terminalSeen
  /\ returnedEarly' = FALSE
  /\ UNCHANGED << processing, mergedBlob, apiKey, audioCtx, mergeLocals,
                  sortPc, sTracks, introPc, decodeLog >>
  /\ lastMerge' = IF tracks' = tracks THEN lastMerge ELSE Null
  /\ NoteEdit
  /\ UNCHANGED << fnIn, fnOut >>

removeTrack(id) ==
  /\ Quiescent
  /\ tracks' = FilterOutId(tracks, id)
  /\ UNCHANGED terminalSeen
  /\ returnedEarly' = FALSE
  /\ UNCHANGED << processing, mergedBlob, apiKey, audioCtx, nextId, mergeLocals,
                  sortPc, sTracks, introPc, decodeLog >>
  /\ lastMerge' = IF tracks' = tracks THEN lastMerge ELSE Null
  /\ NoteEdit
  /\ UNCHANGED << fnIn, fnOut >>

moveTrack(index, direction) ==
  /\ Quiescent
  /\ tracks' = MovedTracks(tracks, index, direction)
  /\ UNCHANGED terminalSeen
  /\ returnedEarly' = FALSE
  /\ UNCHANGED << processing, mergedBlob, apiKey, audioCtx, nextId, mergeLocals,
                  sortPc, sTracks, introPc, decodeLog >>
  /\ lastMerge' = IF tracks' = tracks THEN lastMerge ELSE Null
  /\ NoteEdit
  /\ UNCHANGED << fnIn, fnOut >>

\* "clear all" also dropping a merge in flight
clearAll_AbortsMerge ==
  /\ Quiescent
  /\ Len(tracks) > 0
  /\ tracks' = <<>>
  /\ mergePc' = "idle" /\ mTracks' = <<>> /\ mI' = 0
  /\ chunks' = <<>> /\ totalDataLength' = 0 /\ held' = {}
  /\ UNCHANGED terminalSeen
  /\ returnedEarly' = FALSE
  /\ UNCHANGED << processing, mergedBlob, apiKey, audioCtx, nextId,
                  sortPc, sTracks, introPc, decodeLog >>
  /\ lastMerge' = IF tracks' = tracks THEN lastMerge ELSE Null
  /\ NoteEdit
  /\ UNCHANGED << fnIn, fnOut >>

\* the "clear all" button, rendered when the list is not empty
clearAll ==
  /\ Quiescent
  /\ Len(tracks) > 0
  /\ tracks' = <<>>
  /\ UNCHANGED terminalSeen
  /\ returnedEarly' = FALSE
  /\ UNCHANGED << processing, mergedBlob, apiKey, audioCtx, nextId, mergeLocals,
                  sortPc, sTracks, introPc, decodeLog >>
  /\ lastMerge' = IF tracks' = tracks THEN lastMerge ELSE Null
  /\ NoteEdit
  /\ UNCHANGED << fnIn, fnOut >>

\* a reset that drops the artifact and leaves the processing state
reset_BlobOnly ==
  /\ Quiescent
  /\ ShowDownloadReset
  /\ processing' = processing
  /\ mergedBlob' = Null
  /\ terminalSeen' = FALSE
  /\ returnedEarly' = FALSE
  /\ UNCHANGED << tracks, apiKey, audioCtx, nextId, mergeLocals,
                  sortPc, sTracks, introPc, decodeLog >>
  /\ lastMerge' = IF tracks' = tracks THEN lastMerge ELSE Null
  /\ NoteEdit
  /\ UNCHANGED << fnIn, fnOut >>

\* the reset button of the footer's second branch
reset ==
  /\ Quiescent
  /\ ShowDownloadReset
  /\ processing' = Idle
  /\ mergedBlob' = Null
  /\ terminalSeen' = FALSE
  /\ returnedEarly' = FALSE
  /\ UNCHANGED << tracks, apiKey, audioCtx, nextId, mergeLocals,
                  sortPc, sTracks, introPc, decodeLog >>
  /\ lastMerge' = IF tracks' = tracks THEN lastMerge ELSE Null
  /\ NoteEdit
  /\ UNCHANGED << fnIn, fnOut >>

(* ----------------------------- processMerge ---------------------------- *)
\* getAudioContext: the state of the context it returns (a new context may start
\* suspended or running, as the browser's autoplay policy decides)
CtxStates == IF audioCtx = "none" THEN {"suspended", "running"} ELSE {audioCtx}

\* the progress counting the track being worked on as done
LoopHead_CountsCurrent(list, i) ==
  [status |-> "decoding",
   message |-> Msg("processingTrack", i + 1, Len(list), list[i + 1].name, ""),
   progress |-> Frac((i + 1) * DecodeShare, Len(list))]

\* setProcessing at the head of loop iteration i (0-based) over the captured list
LoopHead(list, i) ==
  [status |-> "decoding",
   message |-> Msg("processingTrack", i + 1, Len(list), list[i + 1].name, ""),
   progress |-> Frac(i * DecodeShare, Len(list))]

\* setProcessing of the catch block, e.message being emsg
MergeError(emsg) ==
  [status |-> "error",
   message |-> Msg("statusError", 0, 0, "", IF emsg = "" THEN "Unknown error" ELSE emsg),
   progress |-> Frac(0, 1)]

\* the start of an invocation leaving the published artifact in place
BlobAtMergeStart_Kept == mergedBlob

\* setMergedBlob at the start of an invocation
BlobAtMergeStart == Null

\* audioBufferToWavPCM: the chunk of one decoded buffer
audioBufferToWavPCM(buffer) ==
  [of |-> buffer.of, bytes |-> buffer.length * BytesPerFrame]

\* createWavHeader: the header bytes, written field by field as bufferToWav
\* writes them, the file length being 44 + dataLength (dataLength is Wide)
createWavHeader(sampleRate, numChannels, dataLength) ==
     setUint32(Wide(1179011410))                        \* "RIFF"
  \o setUint32(WidePlus(dataLength, 36))                \* file length - 8
  \o setUint32(Wide(1163280727))                        \* "WAVE"
  \o setUint32(Wide(544501094))                         \* "fmt " chunk
  \o setUint32(Wide(16))                                \* length = 16
  \o setUint16(1)                                       \* PCM (uncompressed)
  \o setUint16(numChannels)
  \o setUint32(Wide(sampleRate))
  \o setUint32(Wide(sampleRate * 2 * numChannels))      \* avg. bytes/sec
  \o setUint16(numChannels * 2)                         \* block-align
  \o setUint16(16)                                      \* 16-bit
  \o setUint32(Wide(1635017060))                        \* "data" - chunk
  \o setUint32(dataLength)                              \* chunk length

\* the local `buffer` of iteration i: track.buffer, or what decodeAudio resolved to
CurrentBuffer(list, i) ==
  IF list[i + 1].buffer # Null THEN list[i + 1].buffer[1] ELSE DecodedBuffer(list[i + 1])

\* the reference kept past the iteration (decoded buffers collected, as mergeBuffers needs)
DropBuffer_Keep(refs, buffer) == refs

\* buffer = null at the end of the iteration
DropBuffer(refs, buffer) == refs \ {buffer}

\* a chunk put in front of the accumulated ones
PushChunk_Front(list, chunk) == <<chunk>> \o list

\* chunks.push(pcmChunk)
PushChunk(list, chunk) == Append(list, chunk)

\* the total set to the last chunk's length
AddLength_Overwrite(total, chunk) == chunk.bytes

\* totalDataLength += pcmChunk.length
AddLength(total, chunk) == total + chunk.bytes

\* new Blob([header, ...chunks]): its size
BlobSize(blob) ==
  LET SizeUpTo[k \in 0..Len(blob.chunks)] ==
        IF k = 0 THEN 0 ELSE SizeUpTo[k - 1] + blob.chunks[k].bytes
  IN Len(blob.header) + SizeUpTo[Len(blob.chunks)]

\* the merge's locals once the invocation has ended
MergeEnded ==
  /\ mergePc' = "idle"
  /\ mTracks' = <<>>
  /\ mI' = 0
  /\ chunks' = <<>>
  /\ totalDataLength' = 0
  /\ held' = {}

\* the loop reporting 'completed' as soon as the last track is done
EnterLoop_NoMerging(list, i) ==
  IF i < Len(list)
  THEN /\ processing' = LoopHead(list, i)
       /\ mergePc' = "yield"
  ELSE /\ processing' = [status |-> "completed", message |-> PlainMsg("statusReady"),
                         progress |-> Frac(CompletedProgress, 1)]
       /\ mergePc' = "assemble"

\* the loop test before iteration i: the iteration's head, or the step after the loop
EnterLoop(list, i) ==
  IF i < Len(list)
  THEN /\ processing' = LoopHead(list, i)
       /\ mergePc' = "yield"
  ELSE /\ processing' = [status |-> "merging", message |-> PlainMsg("statusEncoding"),
                         progress |-> Frac(MergingProgress, 1)]
       /\ mergePc' = "assemble"

\* i++ and the loop test
Advance ==
  /\ mI' = mI + 1
  /\ EnterLoop(mTracks, mI + 1)

\* an accumulator that outlives the invocation: it starts from the chunks of the
\* artifact still published
FreshChunks_FromArtifact == IF mergedBlob # Null THEN mergedBlob[1].chunks ELSE <<>>

\* const chunks: Uint8Array[] = []
FreshChunks == <<>>

\* the handler without its first line
RejectsMerge_Never(list) == FALSE

\* if (tracks.length === 0) return
RejectsMerge(list) == Len(list) = 0

\* processMerge from the click to its first await.  The handler is modelled with
\* its own guard; the button's disabled attribute repeats that guard.
processMerge ==
  /\ Quiescent
  /\ ShowMergeButton
  /\ IF RejectsMerge(tracks)
     THEN /\ returnedEarly' = TRUE
          /\ UNCHANGED << processing, mergedBlob, audioCtx, mergeLocals, decodeLog >>
     ELSE /\ returnedEarly' = FALSE
          /\ mergedBlob' = BlobAtMergeStart
          /\ mTracks' = tracks
          /\ mI' = 0
          /\ chunks' = FreshChunks
          /\ totalDataLength' = 0
          /\ held' = {}
          /\ decodeLog' = <<>>
          /\ \E st \in CtxStates :
               /\ audioCtx' = st
               /\ IF st = "suspended"
                  THEN /\ processing' = [status |-> "decoding",
                                         message |-> PlainMsg("statusDecoding"),
                                         progress |-> Frac(0, 1)]
                       /\ mergePc' = "resume"
                  ELSE EnterLoop(tracks, 0)
  /\ UNCHANGED << tracks, apiKey, nextId, sortPc, sTracks, introPc, terminalSeen >>
  /\ lastMerge' = IF tracks' = tracks THEN lastMerge ELSE Null
  /\ NoteEdit
  /\ UNCHANGED << fnIn, fnOut >>

\* await ctx.resume() returns
mergeResumed ==
  /\ mergePc = "resume"
  /\ audioCtx' = "running"
  /\ EnterLoop(mTracks, 0)
  /\ UNCHANGED terminalSeen
  /\ returnedEarly' = FALSE
  /\ UNCHANGED << tracks, mergedBlob, apiKey, nextId, mTracks, mI, chunks,
                  totalDataLength, held, sortPc, sTracks, introPc, decodeLog >>
  /\ lastMerge' = IF tracks' = tracks THEN lastMerge ELSE Null
  /\ NoteEdit
  /\ UNCHANGED << fnIn, fnOut >>

\* the 50 ms timer fires: take the track's buffer, or call decodeAudio and await it
mergeYielded ==
  /\ mergePc = "yield"
  /\ LET track == mTracks[mI + 1] IN
       IF track.buffer # Null
       THEN /\ held' = held \cup {track.buffer[1]}
            /\ mergePc' = "decoded"
            /\ UNCHANGED << processing, mI, decodeLog >>
       ELSE IF track.file # Null
       THEN /\ decodeLog' = Append(decodeLog, mI)
            /\ mergePc' = "decode"
            /\ UNCHANGED << processing, mI, held >>
       ELSE /\ Advance
            /\ UNCHANGED << held, decodeLog >>
  /\ UNCHANGED terminalSeen
  /\ returnedEarly' = FALSE
  /\ UNCHANGED << tracks, mergedBlob, apiKey, audioCtx, nextId, mTracks, chunks,
                  totalDataLength, sortPc, sTracks, introPc >>
  /\ lastMerge' = IF tracks' = tracks THEN lastMerge ELSE Null
  /\ NoteEdit
  /\ UNCHANGED << fnIn, fnOut >>

\* decodeAudio resolves
decodeResolved ==
  /\ mergePc = "decode"
  /\ held' = held \cup {DecodedBuffer(mTracks[mI + 1])}
  /\ mergePc' = "decoded"
  /\ UNCHANGED terminalSeen
  /\ returnedEarly' = FALSE
  /\ UNCHANGED << tracks, processing, mergedBlob, apiKey, audioCtx, nextId, mTracks, mI,
                  chunks, totalDataLength, sortPc, sTracks, introPc, decodeLog >>
  /\ lastMerge' = IF tracks' = tracks THEN lastMerge ELSE Null
  /\ NoteEdit
  /\ UNCHANGED << fnIn, fnOut >>

\* a rejected decode caught per track: the track is skipped and the loop goes on
decodeRejected_Skip(emsg) ==
  /\ mergePc = "decode"
  /\ Advance
  /\ UNCHANGED terminalSeen
  /\ returnedEarly' = FALSE
  /\ UNCHANGED << tracks, mergedBlob, apiKey, audioCtx, nextId, mTracks, chunks,
                  totalDataLength, held, sortPc, sTracks, introPc, decodeLog >>
  /\ lastMerge' = IF tracks' = tracks THEN lastMerge ELSE Null
  /\ NoteEdit
  /\ UNCHANGED << fnIn, fnOut >>

\* decodeAudio rejects: the catch block
decodeRejected(emsg) ==
  /\ mergePc = "decode"
  /\ processing' = MergeError(emsg)
  /\ MergeEnded
  /\ terminalSeen' = TRUE
  /\ returnedEarly' = FALSE
  /\ UNCHANGED << tracks, mergedBlob, apiKey, audioCtx, nextId,
                  sortPc, sTracks, introPc, decodeLog >>
  /\ lastMerge' = IF tracks' = tracks THEN lastMerge ELSE Null
  /\ NoteEdit
  /\ UNCHANGED << fnIn, fnOut >>

\* the iteration keeping the decoded buffer in the track it belongs to
normalizeAndPush_CachesBuffer ==
  /\ mergePc = "decoded"
  /\ LET buffer == CurrentBuffer(mTracks, mI)
         pcmChunk == audioBufferToWavPCM(buffer)
     IN /\ chunks' = PushChunk(chunks, pcmChunk)
        /\ totalDataLength' = AddLength(totalDataLength, pcmChunk)
        /\ held' = DropBuffer(held, buffer)
        /\ tracks' = [k \in 1..Len(tracks) |->
                        IF tracks[k].id = mTracks[mI + 1].id
                        THEN [tracks[k] EXCEPT !.buffer = Some(buffer)]
                        ELSE tracks[k]]
  /\ Advance
  /\ UNCHANGED terminalSeen
  /\ returnedEarly' = FALSE
  /\ UNCHANGED << mergedBlob, apiKey, audioCtx, nextId, mTracks,
                  sortPc, sTracks, introPc, decodeLog >>
  /\ lastMerge' = IF tracks' = tracks THEN lastMerge ELSE Null
  /\ NoteEdit
  /\ UNCHANGED << fnIn, fnOut >>

\* if (buffer) { ... }: normalize, push, add, drop; then the loop goes on
normalizeAndPush ==
  /\ mergePc = "decoded"
  /\ LET buffer == CurrentBuffer(mTracks, mI)
         pcmChunk == audioBufferToWavPCM(buffer)
     IN /\ chunks' = PushChunk(chunks, pcmChunk)
        /\ totalDataLength' = AddLength(totalDataLength, pcmChunk)
        /\ held' = DropBuffer(held, buffer)
  /\ Advance
  /\ UNCHANGED terminalSeen
  /\ returnedEarly' = FALSE
  /\ UNCHANGED << tracks, mergedBlob, apiKey, audioCtx, nextId, mTracks,
                  sortPc, sTracks, introPc, decodeLog >>
  /\ lastMerge' = IF tracks' = tracks THEN lastMerge ELSE Null
  /\ NoteEdit
  /\ UNCHANGED << fnIn, fnOut >>

\* the 100 ms timer fires: header, Blob, 'completed'
assemble ==
  /\ mergePc = "assemble"
  /\ mergedBlob' = Some([header |-> createWavHeader(SampleRate, OutChannels,
                                                     Wide(totalDataLength)),
                         chunks |-> chunks])
  /\ processing' = [status |-> "completed", message |-> PlainMsg("statusReady"),
                    progress |-> Frac(CompletedProgress, 1)]
  /\ MergeEnded
  /\ terminalSeen' = TRUE
  /\ returnedEarly' = FALSE
  /\ UNCHANGED << tracks, apiKey, audioCtx, nextId, sortPc, sTracks, introPc, decodeLog >>
  /\ lastMerge' = IF tracks = mTracks
                   THEN Some([blob |-> mergedBlob'[1], repeated |-> lastMerge # Null])
                   ELSE Null
  /\ NoteEdit
  /\ UNCHANGED << fnIn, fnOut >>

(* ---------------------------- handleSmartSort -------------------------- *)
handleSmartSort ==
  /\ Quiescent
  /\ apiKey
  /\ Len(tracks) >= 2
  /\ AIButtonsEnabled
  /\ processing' = [status |-> "analyzing", message |-> PlainMsg("statusAnalyzing"),
                    progress |-> Frac(AnalyzingProgress, 1)]
  /\ sTracks' = tracks
  /\ sortPc' = "await"
  /\ UNCHANGED terminalSeen
  /\ returnedEarly' = FALSE
  /\ UNCHANGED << tracks, mergedBlob, apiKey, audioCtx, nextId, mergeLocals, introPc, decodeLog >>
  /\ lastMerge' = IF tracks' = tracks THEN lastMerge ELSE Null
  /\ NoteEdit
  /\ UNCHANGED << fnIn, fnOut >>

\* sortTracksSmartly resolves to `sorted`
sortResolved(sorted) ==
  /\ Quiescent
  /\ sortPc = "await"
  /\ Len(sorted) <= MaxTracks
  /\ tracks' = sorted
  /\ processing' = Idle
  /\ sortPc' = "idle"
  /\ sTracks' = <<>>
  /\ UNCHANGED terminalSeen
  /\ returnedEarly' = FALSE
  /\ UNCHANGED << mergedBlob, apiKey, audioCtx, nextId, mergeLocals, introPc, decodeLog >>
  /\ lastMerge' = IF tracks' = tracks THEN lastMerge ELSE Null
  /\ NoteEdit
  /\ UNCHANGED << fnIn, fnOut >>

\* sortTracksSmartly rejects
sortRejected ==
  /\ Quiescent
  /\ sortPc = "await"
  /\ processing' = [status |-> "error", message |-> Msg("statusSortError", 0, 0, "", "service"),
                    progress |-> Frac(0, 1)]
  /\ sortPc' = "idle"
  /\ sTracks' = <<>>
  /\ terminalSeen' = TRUE
  /\ returnedEarly' = FALSE
  /\ UNCHANGED << tracks, mergedBlob, apiKey, audioCtx, nextId, mergeLocals, introPc, decodeLog >>
  /\ lastMerge' = IF tracks' = tracks THEN lastMerge ELSE Null
  /\ NoteEdit
  /\ UNCHANGED << fnIn, fnOut >>

(* ----------------------------- handleAddIntro -------------------------- *)
handleAddIntro ==
  /\ Quiescent
  /\ apiKey
  /\ AIButtonsEnabled
  /\ processing' = [status |-> "generating_tts", message |-> PlainMsg("statusGenTTS"),
                    progress |-> Frac(TTSProgress, 1)]
  /\ \E st \in CtxStates :
       /\ audioCtx' = st
       /\ introPc' = IF st = "suspended" THEN "resume" ELSE "await"
  /\ UNCHANGED terminalSeen
  /\ returnedEarly' = FALSE
  /\ UNCHANGED << tracks, mergedBlob, apiKey, nextId, mergeLocals, sortPc, sTracks, decodeLog >>
  /\ lastMerge' = IF tracks' = tracks THEN lastMerge ELSE Null
  /\ NoteEdit
  /\ UNCHANGED << fnIn, fnOut >>

\* await ctx.resume() returns
introResumed ==
  /\ Quiescent
  /\ introPc = "resume"
  /\ audioCtx' = "running"
  /\ introPc' = "await"
  /\ UNCHANGED terminalSeen
  /\ returnedEarly' = FALSE
  /\ UNCHANGED << tracks, processing, mergedBlob, apiKey, nextId, mergeLocals,
                  sortPc, sTracks, decodeLog >>
  /\ lastMerge' = IF tracks' = tracks THEN lastMerge ELSE Null
  /\ NoteEdit
  /\ UNCHANGED << fnIn, fnOut >>

\* the intro put behind the list
WithIntro_Appended(prev, introTrack) == prev \o <<introTrack>>

\* setTracks(prev => [introTrack, ...prev]): the update applied to the list as it is
WithIntro(prev, introTrack) == <<introTrack>> \o prev

\* generateIntroAudio resolves
introResolved ==
  /\ Quiescent
  /\ introPc = "await"
  /\ nextId <= MaxIds
  /\ Len(tracks) < MaxTracks
  /\ tracks' = WithIntro(tracks, IntroTrack(nextId))
  /\ nextId' = nextId + 1
  /\ processing' = Idle
  /\ introPc' = "idle"
  /\ UNCHANGED terminalSeen
  /\ returnedEarly' = FALSE
  /\ UNCHANGED << mergedBlob, apiKey, audioCtx, mergeLocals, sortPc, sTracks, decodeLog >>
  /\ lastMerge' = IF tracks' = tracks THEN lastMerge ELSE Null
  /\ NoteEdit
  /\ UNCHANGED << fnIn, fnOut >>

\* generateIntroAudio rejects
introRejected ==
  /\ Quiescent
  /\ introPc = "await"
  /\ processing' = [status |-> "error", message |-> Msg("statusTTSError", 0, 0, "", "service"),
                    progress |-> Frac(0, 1)]
  /\ introPc' = "idle"
  /\ terminalSeen' = TRUE
  /\ returnedEarly' = FALSE
  /\ UNCHANGED << tracks, mergedBlob, apiKey, audioCtx, nextId, mergeLocals,
                  sortPc, sTracks, decodeLog >>
  /\ lastMerge' = IF tracks' = tracks THEN lastMerge ELSE Null
  /\ NoteEdit
  /\ UNCHANGED << fnIn, fnOut >>

(* ----------------------------- specification --------------------------- *)
\* the file lists of one upload
UploadChoices == UNION { [1..n -> Files] : n \in 1..MaxUpload }

Next ==
  \/ \E k \in BOOLEAN : handleApiKeyChange(k)
  \/ \E new \in { NewTracks(files, nextId) : files \in UploadChoices } : handleFileUpload(new)
  \/ \E k \in 1..Len(tracks) : removeTrack(tracks[k].id)
  \/ \E k \in 1..Len(tracks), d \in {"up", "down"} : moveTrack(k - 1, d)
  \/ clearAll
  \/ reset
  \/ processMerge
  \/ mergeResumed
  \/ mergeYielded
  \/ decodeResolved
  \/ \E emsg \in DecodeErrors : decodeRejected(emsg)
  \/ normalizeAndPush
  \/ assemble
  \/ handleSmartSort
  \/ sortPc = "await" /\ \E sorted \in SortResults(sTracks) : sortResolved(sorted)
  \/ sortRejected
  \/ handleAddIntro
  \/ introResumed
  \/ introResolved
  \/ introRejected

Spec == Init /\ [][Next]_vars

\* the continuations of a suspended processMerge
MergeStep ==
  \/ mergeResumed
  \/ mergeYielded
  \/ decodeResolved
  \/ \E emsg \in DecodeErrors : decodeRejected(emsg)
  \/ normalizeAndPush
  \/ assemble

\* Spec with every await of processMerge returning: ctx.resume(), the two
\* timers and decodeAudio settle, and the synchronous code after them runs
FairSpec ==
  /\ Spec
  /\ WF_vars(mergeResumed)
  /\ WF_vars(mergeYielded)
  /\ WF_vars(decodeResolved \/ \E emsg \in DecodeErrors : decodeRejected(emsg))
  /\ WF_vars(normalizeAndPush)
  /\ WF_vars(assemble)

(* --------------------------- library functions ------------------------- *)
\* The header builder and the normalizer are pure: each is run on its own on
\* every argument of a bounded set, the component staying as mounted.
appVars == << tracks, processing, mergedBlob, apiKey, audioCtx, nextId,
              mergePc, mTracks, mI, chunks, totalDataLength, held,
              sortPc, sTracks, introPc, decodeLog, returnedEarly, terminalSeen,
              lastMerge, editedBy >>

\* payload lengths: small ones, and the ones around 2^32 - 36 and 2^32
HeaderLengths ==
  { Wide(0), Wide(4), Wide(1000), Wide(64000),
    [hi |-> 32768, lo |-> 0],
    [hi |-> 65535, lo |-> 65496], [hi |-> 65535, lo |-> 65500],
    [hi |-> 65536, lo |-> 0], [hi |-> 65536, lo |-> 1000] }
HeaderRates == {8000, 22050, 44100, 48000}
HeaderChannels == {1, 2}

HeaderInit ==
  /\ AppInit
  /\ fnIn \in [sampleRate : HeaderRates, numChannels : HeaderChannels,
               dataLength : HeaderLengths]
  /\ fnOut = Null

\* createWavHeader(sampleRate, numChannels, dataLength) is called
callCreateWavHeader ==
  /\ fnOut = Null
  /\ fnOut' = Some(createWavHeader(fnIn.sampleRate, fnIn.numChannels, fnIn.dataLength))
  /\ UNCHANGED << appVars, fnIn >>

HeaderSpec == HeaderInit /\ [][callCreateWavHeader]_vars

\* frames of a decoded buffer handed to the normalizer
MaxFrames == 1
\* samples below, at and between the clamping limits
SampleValues ==
  { -SampleUnit - 1, -SampleUnit, -1, 0, 1, SampleUnit, SampleUnit + 1 }
BufferChannels == {1, 2, 3}
\* the decoded buffers of c channels and n frames
Buffers(c, n) ==
  { [numberOfChannels |-> c, length |-> n, data |-> d] :
      d \in [1..c -> [1..n -> SampleValues]] }

NormInit ==
  /\ AppInit
  /\ \E c \in BufferChannels, n \in 1..MaxFrames : fnIn \in Buffers(c, n)
  /\ fnOut = Null

\* audioBufferToWavPCM(buffer) is called
callAudioBufferToWavPCM ==
  /\ fnOut = Null
  /\ fnOut' = Some([pcm |-> extractPCM16(fnIn), bytes |-> audioBufferToWavPCMBytes(fnIn)])
  /\ UNCHANGED << appVars, fnIn >>

NormSpec == NormInit /\ [][callAudioBufferToWavPCM]_vars

\* lists handed to sortTracksSmartly (handleSmartSort passes two tracks or more)
MaxSortLen == 3
\* length of the index array in the service's answer
MaxSortOrder == 2

\* a list of n tracks, track i having id i; the first one an intro or a song
SortList(n, intro) ==
  [i \in 1..n |-> IF i = 1 /\ intro THEN IntroTrack(1) ELSE MusicTrack(i, "a.mp3")]

SortInit ==
  /\ AppInit
  /\ \E n \in 2..MaxSortLen, k \in 0..MaxSortOrder, intro \in BOOLEAN :
       \E order \in [1..k -> (-1)..n] :
         fnIn = [tracks |-> SortList(n, intro), order |-> order]
  /\ fnOut = Null

\* sortTracksSmartly resolves, the service having answered fnIn.order
callSortTracksSmartly ==
  /\ fnOut = Null
  /\ fnOut' = Some(sortTracksSmartly(fnIn.tracks, fnIn.order))
  /\ UNCHANGED << appVars, fnIn >>

SortSpec == SortInit /\ [][callSortTracksSmartly]_vars

(* ------------------------------- claims -------------------------------- *)
status == processing.status
\* the 16-bit and 32-bit little-endian fields at a byte offset of a byte sequence
getUint16(bytes, offset) == bytes[offset + 1] + 256 * bytes[offset + 2]
getUint32(bytes, offset) ==
  [hi |-> bytes[offset + 3] + 256 * bytes[offset + 4],
   lo |-> bytes[offset + 1] + 256 * bytes[offset + 2]]
\* the status is 'error' and the message is the one processMerge's catch block sets
MergeFailed == status = "error" /\ processing.message.key = "statusError"
\* a step in which the pending decodeAudio of a merge rejects
DecodeFails == mergePc = "decode" /\ mergePc' \notin {"decode", "decoded"}
\* the chunk sequence a merge over `list` has to produce
ExpectedChunks(list) ==
  [k \in 1..Len(list) |-> audioBufferToWavPCM(CurrentBuffer(list, k - 1))]

\* C1: when a decode fails during a merge, the invocation ends with status
\* 'error' and no artifact published (mergedBlob is null), whatever had been
\* accumulated or published before.
C1_FailureNoArtifact ==
  [][DecodeFails => (mergePc' = "idle" /\ processing'.status = "error" /\ mergedBlob' = Null)]_vars

\* a merge failed on its second track, after one chunk had been accumulated
C1_Witness == MergeFailed /\ decodeLog = <<0, 1>> /\ mergedBlob = Null

\* C2: when track k fails to decode, the recorded error message names track k
\* by its index or its name.
C2_ErrorNamesTrack ==
  [][DecodeFails => (\/ processing'.message.index = mI + 1
                     \/ processing'.message.name = mTracks[mI + 1].name)]_vars

\* C3: a merge that reaches 'completed' publishes exactly one chunk per track of
\* the list it was invoked on, in that list's order, whatever edits the list
\* has seen while the merge was in flight.
C3_ChunksFollowInvocationList ==
  [][(mergePc = "assemble" /\ mergePc' = "idle")
       => (/\ processing'.status = "completed"
           /\ mergedBlob' # Null
           /\ mergedBlob'[1].chunks = ExpectedChunks(mTracks))]_vars

\* a completed merge of two different tracks whose list was edited before it ended
C3_Witness ==
  /\ status = "completed"
  /\ mergedBlob # Null
  /\ Len(mergedBlob[1].chunks) = 2
  /\ mergedBlob[1].chunks[1].of # mergedBlob[1].chunks[2].of
  /\ Len(tracks) # 2

\* C4: processMerge on an empty list changes nothing: the processing state and
\* the published artifact keep their values and no invocation starts.
C4_EmptyMergeChangesNothing ==
  [][(processMerge /\ Len(tracks) = 0)
       => (/\ processing' = processing
           /\ mergedBlob' = mergedBlob
           /\ tracks' = tracks
           /\ mergePc' = "idle" /\ mergePc = "idle")]_vars

\* processMerge has returned at once while an artifact was published
C4_Witness == returnedEarly /\ mergedBlob # Null /\ Len(tracks) = 0

\* C5: within a merge invocation the status goes decoding -> merging ->
\* completed, with 'error' entered only from 'decoding' or 'merging', and never
\* backward.
C5_StatusOrder ==
  [][/\ (mergePc = "idle" /\ mergePc' # "idle") => processing'.status = "decoding"
     /\ mergePc # "idle" =>
          /\ status \in {"decoding", "merging"}
          /\ processing'.status \in {"decoding", "merging", "completed", "error"}
          /\ processing'.status = "decoding" => status = "decoding"
          /\ processing'.status = "merging" => status \in {"decoding", "merging"}
          /\ processing'.status = "completed" => status = "merging"
          /\ processing'.status = "error" => status \in {"decoding", "merging"}]_vars

\* a merge of two tracks has gone through all its phases
C5_Witness ==
  /\ status = "completed" /\ mergePc = "idle"
  /\ mergedBlob # Null /\ Len(mergedBlob[1].chunks) = 2

C7_IdleOnlyByReset ==
  [][(terminalSeen /\ status # "idle" /\ processing'.status = "idle") => reset]_vars

\* C7 amended: the status changes from 'completed' to 'idle' only through the
\* reset action and never from 'error' to 'idle'; besides reset, 'idle' is only
\* entered when an intro generation or smart sort resolves, also one started
\* from 'completed'.
C7_IdleByResetOrAIResult ==
  [][/\ (status = "completed" /\ processing'.status = "idle") => reset
     /\ status = "error" => processing'.status # "idle"
     /\ (status # "idle" /\ processing'.status = "idle")
          => status \in {"completed", "analyzing", "generating_tts"}]_vars

\* 'idle' reached again after 'completed' without a reset: the artifact is still published
C7_Witness == status = "idle" /\ terminalSeen /\ mergedBlob # Null

\* strictly increasing sequence of numbers
Increasing(seq) == \A a, b \in 1..Len(seq) : a < b => seq[a] < seq[b]

\* C8: a decode failure ends the invocation in 'error' (it never goes on to
\* 'completed'), nothing is decoded after it, and within an invocation
\* decodeAudio is called at most once per list position, in increasing order.
C8_FailureAborts ==
  [][/\ DecodeFails => (mergePc' = "idle" /\ processing'.status = "error")
     /\ (mergePc = "idle" /\ mergePc' = "idle") => decodeLog' = decodeLog
     /\ decodeLog' # decodeLog
          => \/ decodeLog' = <<>>
             \/ decodeLog' = Append(decodeLog, mI) /\ Increasing(decodeLog')]_vars

\* a merge failed on the first of two tracks, and the second was never decoded
C8_Witness == MergeFailed /\ decodeLog = <<0>> /\ Len(tracks) = 2 /\ mergePc = "idle"

\* C9: tracks are processed one after another: while track i is awaited or
\* decoded, the chunks of all tracks before it are in the accumulator and the
\* merge refers to no other decoded buffer, so it holds at most one.
C9_OneBufferAtATime ==
  /\ Cardinality(held) <= 1
  /\ mergePc \in {"yield", "decode"} => (held = {} /\ Len(chunks) = mI)
  /\ mergePc = "decoded" => (held = {CurrentBuffer(mTracks, mI)} /\ Len(chunks) = mI)
  /\ mergePc \in {"idle", "resume", "assemble"} => held = {}

\* the second track's decode is pending, the first track's chunk is accumulated
C9_Witness == mergePc = "decode" /\ mI = 1 /\ Len(chunks) = 1 /\ held = {}

\* the long-running operations that are suspended at an await
InFlight ==
  {op \in {"merge", "sort", "intro"} :
     \/ op = "merge" /\ mergePc # "idle"
     \/ op = "sort" /\ sortPc # "idle"
     \/ op = "intro" /\ introPc # "idle"}
BusyStatus == {"analyzing", "generating_tts", "decoding", "merging"}

\* C10: at most one of merge, intro generation and smart sort is in flight, the
\* status is a busy one while it is, and none of them starts in a busy status.
C10_OneOperationInFlight ==
  /\ [](/\ Cardinality(InFlight) <= 1
        /\ mergePc # "idle" => status \in {"decoding", "merging"}
        /\ sortPc # "idle" => status = "analyzing"
        /\ introPc # "idle" => status = "generating_tts")
  /\ [][((processMerge /\ Len(tracks) # 0) \/ handleSmartSort \/ handleAddIntro)
          => (status \notin BusyStatus /\ InFlight = {})]_vars

\* a merge is in flight while the AI buttons' other enabling conditions hold
C10_Witness == mergePc = "yield" /\ apiKey /\ Len(tracks) >= 2

\* C11: every merge started on a non-empty list ends, with status 'completed'
\* or 'error', provided each awaited decode and timer returns; while it is in
\* flight no step other than its own continuations changes the processing
\* state or the invocation's locals, so no user action cancels it.
C11_MergeEnds ==
  /\ (mergePc # "idle") ~> (mergePc = "idle" /\ status \in {"completed", "error"})
  /\ [][(mergePc # "idle" /\ ~MergeStep) => UNCHANGED << processing, mergeLocals >>]_vars

\* a merge has completed although the list was emptied while it was in flight
C11_Witness ==
  /\ mergePc = "idle" /\ status = "completed"
  /\ mergedBlob # Null /\ Len(mergedBlob[1].chunks) = 2 /\ Len(tracks) = 0

\* C12: whenever the status is 'completed', an artifact is published
\* (mergedBlob is not null) and the progress is 100.
C12_CompletedHasArtifact ==
  status = "completed"
    => (mergedBlob # Null /\ processing.progress = Frac(CompletedProgress, 1))

\* 'completed' with the artifact of a one-track merge, the list since grown
C12_Witness ==
  /\ status = "completed" /\ mergedBlob # Null
  /\ Len(mergedBlob[1].chunks) = 1 /\ Len(tracks) = 2
  /\ processing.progress.num = CompletedProgress

\* a <= b for two ratios
Leq(a, b) == a.num * b.den <= b.num * a.den

\* C13: in the decode phase, with i tracks of the n captured ones done, the
\* progress is 80*i/n, between 0 and 80; as long as the merge does not fail the
\* progress never decreases, and 100 is reached from 'merging' (90) only.
C13_ProgressMonotone ==
  /\ [](mergePc \in {"resume", "yield", "decode", "decoded"}
          => /\ status = "decoding"
             /\ mI < Len(mTracks)
             /\ processing.progress = Frac(DecodeShare * mI, Len(mTracks))
             /\ Leq(Frac(0, 1), processing.progress)
             /\ Leq(processing.progress, Frac(DecodeShare, 1)))
  /\ [][(mergePc # "idle" /\ processing'.status # "error")
          => Leq(processing.progress, processing'.progress)]_vars
  /\ [][(mergePc # "idle" /\ processing'.status = "completed")
          => (/\ status = "merging"
              /\ processing.progress = Frac(MergingProgress, 1)
              /\ processing'.progress = Frac(CompletedProgress, 1))]_vars

\* the second of two tracks is being decoded: progress 40
C13_Witness ==
  /\ mergePc = "decode" /\ mI = 1 /\ Len(mTracks) = 2
  /\ processing.progress = Frac(40, 1)

\* the sum of the byte lengths of a chunk sequence
RECURSIVE SumBytes(_)
SumBytes(list) ==
  IF list = <<>> THEN 0 ELSE list[1].bytes + SumBytes(Tail(list))

\* C14: the running total is the sum of the byte lengths of the accumulated
\* chunks after every iteration; a published artifact is a 44-byte header
\* followed by the chunks, the header's data length field (offset 40) is the
\* sum of the chunk lengths and the artifact is 44 + that sum bytes long.
C14_TotalIsSumOfChunks ==
  /\ totalDataLength = SumBytes(chunks)
  /\ mergedBlob # Null =>
       /\ Len(mergedBlob[1].header) = 44
       /\ getUint32(mergedBlob[1].header, 40) = Wide(SumBytes(mergedBlob[1].chunks))
       /\ BlobSize(mergedBlob[1]) = 44 + SumBytes(mergedBlob[1].chunks)

\* two mono tracks of 8000 frames merged: 64044 bytes
C14_Witness ==
  /\ status = "completed" /\ mergedBlob # Null
  /\ mergedBlob[1].chunks = <<[of |-> 1, bytes |-> 32000], [of |-> 2, bytes |-> 32000]>>
  /\ BlobSize(mergedBlob[1]) = 64044

\* C19: a merge of the list the previous completed merge was invoked on, the
\* list not having changed since, publishes the artifact the previous one
\* published: same header bytes, same chunk sequence.
C19_RepeatedMergeIdentical ==
  [][(mergePc = "assemble" /\ mergePc' = "idle" /\ lastMerge # Null)
       => (mergedBlob' # Null /\ mergedBlob'[1] = lastMerge[1].blob)]_vars

\* a two-track list has been merged twice in a row
C19_Witness ==
  /\ status = "completed" /\ lastMerge # Null /\ lastMerge[1].repeated
  /\ Len(lastMerge[1].blob.chunks) = 2 /\ mergedBlob = Some(lastMerge[1].blob)

\* exactly one of {file, buffer} is set, as the way the track was created says
OneOfFileBuffer(t) ==
  /\ (t.file # Null) # (t.buffer # Null)
  /\ t.type = "music" => (t.file # Null /\ t.buffer = Null)
  /\ t.type = "voiceover" => (t.file = Null /\ t.buffer # Null)

\* C20: every track of the list, and of the lists a merge or a sort has
\* captured, has exactly one of {file, buffer}: uploaded tracks a file and no
\* buffer, generated intros a buffer and a null file.
C20_ExactlyOneSource ==
  \A list \in {tracks, mTracks, sTracks} :
    \A k \in 1..Len(list) : OneOfFileBuffer(list[k])

\* an uploaded track ahead of a generated intro, after a merge of both
C20_Witness ==
  /\ Len(tracks) = 2 /\ tracks[1].type = "music" /\ tracks[2].type = "voiceover"
  /\ status = "completed" /\ mergedBlob # Null /\ Len(mergedBlob[1].chunks) = 2

\* the value fits an unsigned 32-bit field
Fits32(w) == w.hi < 65536

\* the header fields that do not depend on the payload length
HeaderFixedFields(h, in) ==
  /\ Len(h) = 44
  /\ getUint16(h, 22) = in.numChannels
  /\ getUint32(h, 24) = Wide(in.sampleRate)
  /\ getUint32(h, 28) = Wide(in.sampleRate * in.numChannels * 2)
  /\ getUint16(h, 32) = in.numChannels * 2
  /\ getUint16(h, 34) = 16
  /\ in = [sampleRate |-> 44100, numChannels |-> 2, dataLength |-> Wide(1000)]
       => /\ getUint32(h, 4) = Wide(1036) /\ getUint16(h, 22) = 2
          /\ getUint32(h, 24) = Wide(44100) /\ getUint32(h, 40) = Wide(1000)

C16_ChunkLength ==
  fnOut # Null =>
    /\ Len(fnOut[1].pcm.left) = fnIn.length
    /\ Len(fnOut[1].pcm.right) = fnIn.length
    /\ Len(fnOut[1].bytes) = fnIn.length * 4
    /\ Len(fnOut[1].bytes)
         = audioBufferToWavPCM([of |-> 0, numberOfChannels |-> fnIn.numberOfChannels,
                                length |-> fnIn.length]).bytes

\* a three-channel buffer of one frame has been normalized to 4 bytes
C16_Witness ==
  /\ fnOut # Null /\ fnIn.numberOfChannels = 3 /\ fnIn.length = 1
  /\ Len(fnOut[1].bytes) = 4

\* the buffer without its channels beyond index 1
FirstTwoChannels(buffer) ==
  IF buffer.numberOfChannels <= 2 THEN buffer
  ELSE [numberOfChannels |-> 2, length |-> buffer.length,
        data |-> SubSeq(buffer.data, 1, 2)]

\* C17: the output has two channels; for a 1-channel buffer left and right of
\* every frame are equal and are the conversion of the input sample; for 2 or
\* more channels left is channel 0 and right channel 1, and the channels beyond
\* index 1 do not change the output.
C17_TwoOutputChannels ==
  fnOut # Null =>
    LET pcm == fnOut[1].pcm
        bytes == fnOut[1].bytes
    IN /\ \A i \in 1..fnIn.length :
            /\ pcm.left[i] = SampleToInt16(fnIn.data[1][i])
            /\ fnIn.numberOfChannels = 1 => pcm.right[i] = pcm.left[i]
            /\ fnIn.numberOfChannels >= 2 => pcm.right[i] = SampleToInt16(fnIn.data[2][i])
            /\ SubSeq(bytes, 4 * i - 3, 4 * i)
                 = Int16Bytes(pcm.left[i]) \o Int16Bytes(pcm.right[i])
       /\ pcm = extractPCM16(FirstTwoChannels(fnIn))
       /\ bytes = audioBufferToWavPCMBytes(FirstTwoChannels(fnIn))

\* three channels with different samples: left and right differ, the third is unused
C17_Witness ==
  /\ fnOut # Null /\ fnIn.numberOfChannels = 3 /\ fnIn.length = 1
  /\ fnIn.data[1][1] = 1 /\ fnIn.data[2][1] = -1 /\ fnIn.data[3][1] = SampleUnit
  /\ fnOut[1].pcm.left[1] # fnOut[1].pcm.right[1]

\* C18: every sample is converted to an integer in -32768..32767: inputs at or
\* below -1 give -32768, inputs at or above +1 give 32767, 0 gives 0, a
\* negative input x gives x * 32768 and a non-negative one x * 32767 (fraction
\* dropped), the clamp coming first.
C18_ClampThenScale ==
  fnOut # Null =>
    \A i \in 1..fnIn.length, side \in {"left", "right"} :
      LET x == IF side = "left" THEN fnIn.data[1][i] ELSE RightFloat(fnIn)[i]
          v == fnOut[1].pcm[side][i]
      IN /\ v \in -32768..32767
         /\ x <= -SampleUnit => v = -32768
         /\ x >= SampleUnit => v = 32767
         /\ x = 0 => v = 0
         /\ (-SampleUnit < x /\ x < 0) => v = -(((-x) * 32768) \div SampleUnit)
         /\ (0 <= x /\ x < SampleUnit) => v = (x * 32767) \div SampleUnit

\* samples beyond both limits have been converted
C18_Witness ==
  /\ fnOut # Null /\ fnIn.numberOfChannels = 2 /\ fnIn.length = 1
  /\ fnIn.data[1][1] = SampleUnit + 1 /\ fnOut[1].pcm.left[1] = 32767
  /\ fnIn.data[2][1] = -SampleUnit - 1 /\ fnOut[1].pcm.right[1] = -32768

\* C21: no step of a merge invocation, from the click to 'completed' or
\* 'error', changes the track list: its tracks, their order and their fields.
C21_MergeLeavesList ==
  [][(processMerge \/ MergeStep) => tracks' = tracks]_vars

\* a merge has failed on the track after a generated intro, whose buffer is still set
C21_Witness ==
  /\ MergeFailed /\ mergePc = "idle" /\ decodeLog = <<1>>
  /\ Len(tracks) = 2 /\ tracks[1].type = "voiceover" /\ tracks[1].buffer # Null

\* how often a track occurs in a list
Occurrences(list, t) == Cardinality({k \in 1..Len(list) : list[k] = t})
\* the indices of the array that name a track of the list
NamedIndices(list, order) ==
  {order[j] : j \in 1..Len(order)} \cap (0..(Len(list) - 1))

\* C22: for every index array, also one with repeated, missing or out-of-range
\* indices, sortTracksSmartly returns a permutation of its input: the same
\* length, every input track exactly once.
C22_SortIsPermutation ==
  fnOut # Null =>
    /\ Len(fnOut[1]) = Len(fnIn.tracks)
    /\ \A k \in 1..Len(fnIn.tracks) : Occurrences(fnOut[1], fnIn.tracks[k]) = 1

\* C24: for every index array sortTracksSmartly loses no track and invents
\* none, indices out of range change nothing, and the tracks the array does
\* not name come last, in their original relative order.
C24_SortLosesNoTrack ==
  fnOut # Null =>
    LET in == fnIn.tracks
        out == fnOut[1]
        named == NamedIndices(in, fnIn.order)
        Unnamed(t) == (t.id - 1) \notin named
        InRange(i) == i >= 0 /\ i < Len(in)
        rest == SelectSeq(in, Unnamed)
    IN /\ \A k \in 1..Len(in) : Occurrences(out, in[k]) >= 1
       /\ \A k \in 1..Len(out) : Occurrences(in, out[k]) = 1
       /\ out = sortTracksSmartly(in, SelectSeq(fnIn.order, InRange))
       /\ Len(out) >= Len(rest)
       /\ SubSeq(out, Len(out) - Len(rest) + 1, Len(out)) = rest
       /\ \A k \in 1..(Len(out) - Len(rest)) : ~Unnamed(out[k])

\* the answer [2, 3] for three tracks, 3 being out of range: the third track
\* first, then the first two in their order
C24_Witness ==
  /\ fnOut # Null /\ Len(fnIn.tracks) = 3 /\ fnIn.order = <<2, 3>>
  /\ fnOut[1] = <<fnIn.tracks[3], fnIn.tracks[1], fnIn.tracks[2]>>

\* two lists hold the same tracks, each as often
SameTracks(a, b) ==
  \A t \in {a[k] : k \in 1..Len(a)} \cup {b[k] : k \in 1..Len(b)} :
    Occurrences(a, t) = Occurrences(b, t)

\* C23: when a smart sort completes, the list it sets is a reordering of the
\* list as it is at that moment: tracks uploaded while the sort was in flight
\* are kept, tracks removed meanwhile do not come back.
C23_SortReordersCurrentList ==
  [][(sortPc = "await" /\ sortPc' = "idle" /\ processing'.status = "idle")
       => SameTracks(tracks', tracks)]_vars

====
